---- MODULE Spec2Model ----
(***************************************************************************)
(* muribonbon: a barebones PyQt5 web browser.                              *)
(*                                                                         *)
(*   adblocker.py  the hosts-file blocklist and the request interceptor    *)
(*   browser.py    the main window: tabs, location bar, navigation and     *)
(*                 the previous/next pagination-link lookup (go_by)        *)
(*                                                                         *)
(* Text that the program scans character by character (the hosts file,     *)
(* attribute values, anchor text) is a sequence of one-character strings.  *)
(***************************************************************************)
EXTENDS Integers, Sequences, FiniteSets, TLC

VARIABLES
    hosts,                \* the file "hosts" in the working directory
    import_state,         \* position of adblocker.py's module-level code
    authority_blacklist,  \* adblocker.authority_blacklist
    info,                 \* the request last handed to interceptRequest
    tabs,                 \* tab_widget: the views of the tabs, left to right
    current_index,        \* tab_widget.currentIndex(), -1 without tabs
    views,                \* the live QWebEngineViews: view |-> its url()
    next_view,            \* identity of the next view new_tab creates
    location_bar,         \* location_bar.text()
    pending,              \* toHtml callbacks the engine has yet to call
    last                  \* the handler that ran last: its inputs and the
                          \* engine command it issued

blockVars == <<hosts, import_state, authority_blacklist, info>>

shellVars == <<tabs, current_index, views, next_view, location_bar, pending,
               last>>

vars == <<hosts, import_state, authority_blacklist, info, tabs, current_index,
          views, next_view, location_bar, pending, last>>

(***************************************************************************)
(* Bounds.                                                                 *)
(***************************************************************************)
MaxFileLen == 5
MaxAuthLen == 2
MaxViews == 2
MaxPending == 1
MaxAnchors == 2

(***************************************************************************)
(* Text helpers.                                                           *)
(***************************************************************************)
SeqsUpTo(S, n) == UNION {[1..k -> S] : k \in 0..n}

Last(s) == s[Len(s)]

\* The characters a hosts file is made of here: the comment marker, a blank,
\* a line break and a letter.
FileChars == {"#", " ", "\n", "a"}

Whitespace == {" ", "\n"}

TokenChars == FileChars \ Whitespace

(***************************************************************************)
(* adblocker.py, module level: loading the blocklist.                      *)
(***************************************************************************)

\* str.splitlines(): the text cut at every line break; a line break at the
\* very end opens no further line.
RECURSIVE splitlines_from(_, _, _)
splitlines_from(text, i, cur) ==
    IF i > Len(text)
    THEN IF cur = <<>> THEN <<>> ELSE <<cur>>
    ELSE IF text[i] = "\n"
         THEN <<cur>> \o splitlines_from(text, i + 1, <<>>)
         ELSE splitlines_from(text, i + 1, Append(cur, text[i]))

splitlines(text) == splitlines_from(text, 1, <<>>)

\* str.split() without arguments: the maximal runs of non-whitespace,
\* collected left to right.
RECURSIVE split_from(_, _, _)
split_from(line, i, cur) ==
    IF i > Len(line)
    THEN IF cur = <<>> THEN <<>> ELSE <<cur>>
    ELSE IF line[i] \in Whitespace
         THEN (IF cur = <<>> THEN <<>> ELSE <<cur>>) \o split_from(line, i + 1, <<>>)
         ELSE split_from(line, i + 1, Append(cur, line[i]))

split(line) == split_from(line, 1, <<>>)

startswith(line, c) == Len(line) > 0 /\ line[1] = c

\* What one line of the file appends to authority_blacklist (lines 13-20).
line_entries_first_token(line) ==
    IF startswith(line, "#")
    THEN <<>>
    ELSE LET url == split(line)
         IN  IF Len(url) > 0 THEN <<url[1]>> ELSE <<>>

line_entries(line) ==
    IF startswith(line, "#")
    THEN <<>>
    ELSE LET url == split(line)
         IN  IF Len(url) > 0 THEN <<Last(url)>> ELSE <<>>

\* The for loop over the lines (lines 13-20).
RECURSIVE load_lines(_, _)
load_lines(lines, acc) ==
    IF lines = <<>>
    THEN acc
    ELSE load_lines(Tail(lines), acc \o line_entries(Head(lines)))

\* os.path.isfile("hosts"): an existing regular file.
isfile(f) == f.kind = "file"

\* The module-level code of adblocker.py, lines 7-21.  open() raises when
\* the file exists and cannot be read; the exception leaves the import
\* unfinished, so the AdBlocker class is never defined.
ImportAdblocker ==
    /\ import_state = "start"
    /\ IF isfile(hosts)
       THEN IF hosts.readable
            THEN /\ authority_blacklist' = load_lines(splitlines(hosts.text), <<>>)
                 /\ import_state' = "ready"
            ELSE /\ authority_blacklist' = <<>>
                 /\ import_state' = "error"
       ELSE /\ authority_blacklist' = <<>>
            /\ import_state' = "ready"
    /\ UNCHANGED <<hosts, info>>
    /\ UNCHANGED shellVars

(***************************************************************************)
(* adblocker.py, AdBlocker.interceptRequest.                               *)
(***************************************************************************)
Authorities == SeqsUpTo(TokenChars, MaxAuthLen) \ {<<>>}

IsSuffix(s, t) ==
    /\ Len(s) <= Len(t)
    /\ SubSeq(t, Len(t) - Len(s) + 1, Len(t)) = s

\* "x in list": equality with some element.
in_list_suffix(x, list) == \E i \in 1..Len(list) : IsSuffix(list[i], x)

in_list(x, list) == \E i \in 1..Len(list) : list[i] = x

\* The engine hands every outgoing request to the interceptor, unblocked.
interceptRequest(authority) ==
    /\ import_state = "ready"
    /\ info' = [authority |-> authority,
                blocked   |-> in_list(authority, authority_blacklist)]
    /\ UNCHANGED <<hosts, import_state, authority_blacklist>>
    /\ UNCHANGED shellVars

(***************************************************************************)
(* browser.py: URLs.  A URL is its scheme-and-authority part and its path; *)
(* a relative reference has no origin, and the empty string has neither.   *)
(***************************************************************************)
Url(origin, path) == [origin |-> origin, path |-> path]

EmptyUrl == Url("", "")

\* QUrl.toString()
toString(url) == url.origin \o url.path

\* What the user types into the location bar before pressing Return.
UserInputs == {"", "site.test/p1"}

\* QUrl.fromUserInput(): the empty string gives the empty (invalid) QUrl, a
\* host without a scheme gets http.
fromUserInput(text) ==
    CASE text = "" -> EmptyUrl
      [] text = "site.test/p1" -> Url("http://site.test", "/p1")

\* validators.url(): true of an absolute http(s) URL only.
validators_url(url) == url.origin # ""

\* urllib.parse.urljoin() for the references that occur here: an absolute
\* URL stands, an empty reference gives the base, an absolute path replaces
\* the base's path.
urljoin(base, url) ==
    IF url.origin # "" THEN url
    ELSE IF url = EmptyUrl THEN base
    ELSE Url(base.origin, url.path)

(***************************************************************************)
(* browser.py: the page's anchors as BeautifulSoup hands them to go_by.    *)
(* An attribute is <<>> when the tag does not carry it and <<value>> when  *)
(* it does; class and rel are lists of tokens, id and the text are         *)
(* character strings, href is a URL reference.                             *)
(***************************************************************************)
REL_NEXT == <<"n", "e", "x", "t">>
REL_PREV == <<"p", "r", "e", "v">>

TEXT_MATCHES_NEXT ==
    << <<"n", "e", "x", "t", " ", "p", "a", "g", "e">>,
       <<"n", "e", "x", "t">>,
       <<">">>,
       <<">", ">">> >>

TEXT_MATCHES_PREVIOUS ==
    << <<"p", "r", "e", "v", "i", "o", "u", "s", " ", "p", "a", "g", "e">>,
       <<"p", "r", "e", "v">>,
       <<"<">>,
       <<"<", "<">> >>

Anchor(href, class, rel, id, text) ==
    [href |-> href, class |-> class, rel |-> rel, id |-> id, text |-> text]

\* str.lower() on the letters that occur in the anchor texts.
lower_char(c) ==
    CASE c = "M" -> "m"
      [] c = "N" -> "n"
      [] c = "P" -> "p"
      [] OTHER -> c

lower(text) == [i \in 1..Len(text) |-> lower_char(text[i])]

\* "sub in s" for strings: sub occurs in s as a run of characters.
contains(sub, s) ==
    \E i \in 0..(Len(s) - Len(sub)) : SubSeq(s, i + 1, i + Len(sub)) = sub

has_attr(anchor, attribute) == anchor[attribute] # <<>>

\* soup.find_all("a", href=True): the anchors that carry an href, in
\* document order.
find_all_a_href(html) == SelectSeq(html, LAMBDA anchor : has_attr(anchor, "href"))

\* "relationship in anchor[attribute]": class and rel are lists, so the
\* keyword must be one of the tokens; id is a string, so the keyword must
\* occur in it.
relationship_in(relationship, attribute, value) ==
    IF attribute \in {"class", "rel"}
    THEN in_list(relationship, value)
    ELSE contains(relationship, value)

\* The inner loop over ("class", "rel", "id"), lines 213-216.
attribute_match(anchor, relationship) ==
    \E attribute \in {"class", "rel", "id"} :
        /\ has_attr(anchor, attribute)
        /\ relationship_in(relationship, attribute, anchor[attribute][1])

\* Python's truth value of url: None (<<>> here) and "" are false.
truthy(url) == url # <<>> /\ url[1] # EmptyUrl

\* The attribute pass, lines 212-218: the outer loop stops once url is true.
RECURSIVE attribute_pass(_, _, _, _)
attribute_pass(anchors, i, relationship, url) ==
    IF i > Len(anchors)
    THEN url
    ELSE LET found == IF attribute_match(anchors[i], relationship)
                      THEN anchors[i].href
                      ELSE url
         IN  IF truthy(found)
             THEN found
             ELSE attribute_pass(anchors, i + 1, relationship, found)

\* The inner loop over text_matches, lines 223-226.
text_match(anchor, text_matches) ==
    \E k \in 1..Len(text_matches) : contains(text_matches[k], lower(anchor.text))

\* The text pass, lines 222-226: its break leaves the inner loop only, so
\* the outer loop visits every anchor.
RECURSIVE text_pass(_, _, _, _)
text_pass(anchors, i, text_matches, url) ==
    IF i > Len(anchors)
    THEN url
    ELSE text_pass(anchors, i + 1, text_matches,
                   IF text_match(anchors[i], text_matches)
                   THEN anchors[i].href
                   ELSE url)

\* go_by, lines 205-226: the url the two passes leave.
select_url(html, relationship, text_matches) ==
    LET anchors == find_all_a_href(html)
        url     == attribute_pass(anchors, 1, relationship, <<>>)
    IN  IF ~truthy(url)
        THEN text_pass(anchors, 1, text_matches, url)
        ELSE url

\* go_by, lines 233-234.
resolve(base, url) ==
    IF ~validators_url(url) THEN urljoin(base, url) ELSE url

\* go_by, lines 229-237, after the passes: the url handed to webview.load,
\* <<>> when the function returns without loading.
load_target_always(base, url) ==
    IF url = <<>> THEN <<base>> ELSE <<resolve(base, url[1])>>

load_target(base, url) ==
    IF ~truthy(url) THEN <<>> ELSE <<resolve(base, url[1])>>

(***************************************************************************)
(* browser.py: the main window.                                            *)
(***************************************************************************)
NoView == 0

NoIndexArg == -2

widget_of(ts, index) ==
    IF index \in 0..(Len(ts) - 1) THEN ts[index + 1] ELSE NoView

\* tab_widget.widget(index): None when index is out of range.
widget(index) == widget_of(tabs, index)

\* tab_widget.currentWidget()
currentWidget == widget(current_index)

\* isinstance(webview, QWebEngineView): every page of the tab widget is one,
\* so the test fails only for None.
isinstance_view(webview) == webview # NoView

\* A toHtml callback: the view whose page was asked, the URL it showed then,
\* and the handler (previous or next) whose lambda it is.
NoCallback == [view |-> NoView, handler |-> "none", url |-> EmptyUrl]

\* The relationship and text_matches the lambda of a handler passes to go_by
\* (lines 181 and 189).
relationship_of(handler) == IF handler = "previous" THEN REL_PREV ELSE REL_NEXT

text_matches_of(handler) ==
    IF handler = "previous" THEN TEXT_MATCHES_PREVIOUS ELSE TEXT_MATCHES_NEXT

\* A handler's record: the engine command it issued (cmd, on view, with
\* url); for load_url and go_by the URL the current view showed before
\* (base); for go_by the callback that ran and the HTML it was given.
Handler(op, cmd, view, url, base, cb, html) ==
    [op |-> op, cmd |-> cmd, view |-> view, url |-> url, base |-> base,
     cb |-> cb, html |-> html]

NoCommand(op) == Handler(op, "none", NoView, EmptyUrl, EmptyUrl, NoCallback, <<>>)

\* _update_location_bar, lines 126-132, run on the state a handler leaves.
updated_location_bar(vs, ts, index, text) ==
    LET webview == widget_of(ts, index)
    IN  IF isinstance_view(webview) THEN toString(vs[webview]) ELSE text

\* What a view shows after webview.load(url): the engine commits to an
\* absolute URL; for the empty URL or a relative one it may as well refuse.
load_outcomes(shown, url) ==
    IF url.origin # "" THEN {url} ELSE {shown, url}

RemoveAt(s, i) == SubSeq(s, 1, i - 1) \o SubSeq(s, i + 1, Len(s))

\* webview.load(url) on a live view, and the urlChanged signal that runs
\* _update_location_bar when the view's URL changed.
engine_load(webview, url, text) ==
    \E shown \in load_outcomes(views[webview], url) :
        /\ views' = [views EXCEPT ![webview] = shown]
        /\ location_bar' =
               IF shown # views[webview]
               THEN updated_location_bar(views', tabs, current_index, text)
               ELSE text

\* load_url, lines 154-160; the user has typed text and pressed Return.
load_url(text) ==
    /\ LET webview == currentWidget
       IN  IF isinstance_view(webview)
           THEN /\ engine_load(webview, fromUserInput(text), text)
                /\ last' = Handler("load_url", "load", webview, fromUserInput(text),
                                   views[webview], NoCallback, <<>>)
           ELSE /\ location_bar' = text
                /\ last' = NoCommand("load_url")
                /\ UNCHANGED views
    /\ UNCHANGED <<tabs, current_index, next_view, pending>>
    /\ UNCHANGED blockVars

\* back, forward, reload (lines 162-174, 246-251): the command goes to the
\* current view, if there is one.  The views' histories are not kept: the
\* record of the command is all these handlers leave.
engine_command_unguarded(op) ==
    /\ last' = Handler(op, op, currentWidget, EmptyUrl, EmptyUrl, NoCallback, <<>>)
    /\ UNCHANGED <<tabs, current_index, views, next_view, pending>>
    /\ UNCHANGED blockVars

engine_command(op) ==
    /\ LET webview == currentWidget
       IN  last' = IF isinstance_view(webview)
                   THEN Handler(op, op, webview, EmptyUrl, EmptyUrl, NoCallback, <<>>)
                   ELSE NoCommand(op)
    /\ UNCHANGED <<tabs, current_index, views, next_view, pending>>
    /\ UNCHANGED blockVars

back == engine_command("back") /\ UNCHANGED location_bar

forward == engine_command("forward") /\ UNCHANGED location_bar

reload == engine_command("reload") /\ UNCHANGED location_bar

\* stop, lines 239-244; stop_action also triggers _update_location_bar.
stop ==
    /\ engine_command("stop")
    /\ location_bar' = updated_location_bar(views, tabs, current_index, location_bar)

\* previous and next, lines 176-189: ask the current page for its HTML; the
\* callback keeps the relationship and the text matches.
request_html(op) ==
    /\ LET webview == currentWidget
       IN  IF isinstance_view(webview)
           THEN /\ Len(pending) < MaxPending
                /\ pending' = Append(pending,
                                     [view |-> webview, handler |-> op,
                                      url |-> views[webview]])
                /\ last' = Handler(op, "toHtml", webview, EmptyUrl, EmptyUrl,
                                   NoCallback, <<>>)
           ELSE /\ last' = NoCommand(op)
                /\ UNCHANGED pending
    /\ UNCHANGED <<tabs, current_index, views, next_view, location_bar>>
    /\ UNCHANGED blockVars

previous == request_html("previous")

next == request_html("next")

\* What toHtml hands to its callback: a view that had loaded nothing shows
\* a blank document, any other one of the given pages.
html_of(url, pages) == IF url = EmptyUrl THEN {<<>>} ELSE pages

\* go_by, lines 191-237, called by the engine on the callback pending[i]
\* with the HTML of its page.
go_by(i, pages) ==
    /\ i \in 1..Len(pending)
    /\ pending[i].view \in DOMAIN views
    /\ pending' = RemoveAt(pending, i)
    /\ \E html \in html_of(pending[i].url, pages) :
       LET cb      == pending[i]
           webview == currentWidget
       IN  IF ~isinstance_view(webview)
           THEN /\ last' = [NoCommand("go_by") EXCEPT !.cb = cb, !.html = html]
                /\ UNCHANGED <<views, location_bar>>
           ELSE LET url    == select_url(html, relationship_of(cb.handler),
                                         text_matches_of(cb.handler))
                    target == load_target(views[webview], url)
                IN  IF target = <<>>
                    THEN /\ last' = [NoCommand("go_by") EXCEPT
                                        !.cb = cb, !.html = html, !.base = views[webview]]
                         /\ UNCHANGED <<views, location_bar>>
                    ELSE /\ engine_load(webview, target[1], location_bar)
                         /\ last' = Handler("go_by", "load", webview, target[1],
                                            views[webview], cb, html)
    /\ UNCHANGED <<tabs, current_index, next_view>>
    /\ UNCHANGED blockVars

\* A callback whose page was deleted with its tab: the engine either never
\* calls it or calls it with the empty string.
go_by_deleted(i, called) ==
    /\ i \in 1..Len(pending)
    /\ pending[i].view \notin DOMAIN views
    /\ pending' = RemoveAt(pending, i)
    /\ last' = IF called
               THEN [NoCommand("go_by") EXCEPT !.cb = pending[i]]
               ELSE last
    /\ UNCHANGED <<tabs, current_index, views, next_view, location_bar>>
    /\ UNCHANGED blockVars

\* new_tab, lines 255-264; the tab widget's currentChanged signal runs
\* _update_location_bar.
new_tab ==
    /\ next_view <= MaxViews
    /\ views' = [v \in DOMAIN views \cup {next_view} |->
                    IF v = next_view THEN EmptyUrl ELSE views[v]]
    /\ tabs' = Append(tabs, next_view)
    /\ current_index' = Len(tabs') - 1
    /\ next_view' = next_view + 1
    /\ location_bar' = updated_location_bar(views', tabs', current_index', location_bar)
    /\ last' = NoCommand("new_tab")
    /\ UNCHANGED pending
    /\ UNCHANGED blockVars

\* QTabWidget.removeTab: the tabs to the right move left; when the current
\* tab goes, the one now at its place (or the new last one) becomes current.
index_after_remove(index) ==
    IF Len(tabs) = 1 THEN -1
    ELSE IF index < current_index THEN current_index - 1
    ELSE IF index = current_index /\ index = Len(tabs) - 1 THEN current_index - 1
    ELSE current_index

\* close_tab, lines 266-276.  NoIndexArg stands for a call without an int
\* argument (the Ctrl+W action passes a bool).
close_tab(arg) ==
    /\ LET index   == IF arg = NoIndexArg THEN current_index ELSE arg
           webview == widget(index)
       IN  IF webview # NoView
           THEN /\ tabs' = RemoveAt(tabs, index + 1)
                /\ current_index' = index_after_remove(index)
                /\ views' = [v \in DOMAIN views \ {webview} |-> views[v]]
                /\ location_bar' =
                       IF index > current_index
                       THEN location_bar
                       ELSE updated_location_bar(views', tabs', current_index',
                                                 location_bar)
                /\ last' = Handler("close_tab", "deleteLater", webview, EmptyUrl,
                                   EmptyUrl, NoCallback, <<>>)
           ELSE /\ last' = NoCommand("close_tab")
                /\ UNCHANGED <<tabs, current_index, views, location_bar>>
    /\ UNCHANGED <<next_view, pending>>
    /\ UNCHANGED blockVars

\* The user selects another tab: currentChanged runs _update_location_bar.
currentChanged(index) ==
    /\ index \in 0..(Len(tabs) - 1)
    /\ index # current_index
    /\ current_index' = index
    /\ location_bar' = updated_location_bar(views, tabs, index, location_bar)
    /\ last' = NoCommand("currentChanged")
    /\ UNCHANGED <<tabs, views, next_view, pending>>
    /\ UNCHANGED blockVars

(***************************************************************************)
(* The pages the lookups run on.                                           *)
(***************************************************************************)
TEXT_MORE == <<"M", "o", "r", "e">>
TEXT_NEXT_PAGE == <<"N", "e", "x", "t", " ", "P", "a", "g", "e">>
ID_NEXTPAGE == <<"n", "e", "x", "t", "p", "a", "g", "e">>

Hrefs ==
    {<<>>, <<EmptyUrl>>, <<Url("", "/p2")>>, <<Url("https://other.test", "/x")>>}

\* class, rel, id and text of the anchors: without any signal, with "next"
\* as a class token, inside a longer class token, inside the id, in the text,
\* and with "prev" as a rel token.
Signals ==
    { [class |-> <<>>, rel |-> <<>>, id |-> <<>>, text |-> TEXT_MORE],
      [class |-> << <<REL_NEXT>> >>, rel |-> <<>>, id |-> <<>>, text |-> TEXT_MORE],
      [class |-> << <<ID_NEXTPAGE>> >>, rel |-> <<>>, id |-> <<>>, text |-> TEXT_MORE],
      [class |-> <<>>, rel |-> <<>>, id |-> <<ID_NEXTPAGE>>, text |-> TEXT_MORE],
      [class |-> <<>>, rel |-> <<>>, id |-> <<>>, text |-> TEXT_NEXT_PAGE],
      [class |-> <<>>, rel |-> << <<REL_PREV>> >>, id |-> <<>>, text |-> TEXT_MORE] }

Anchors == {Anchor(h, s.class, s.rel, s.id, s.text) : h \in Hrefs, s \in Signals}

\* Every page of at most MaxAnchors anchors.
Htmls == SeqsUpTo(Anchors, MaxAnchors)

\* The page of the runs with all the window's actions: its only link
\* carries class="next" and rel="prev" and points to http://site.test/p1.
SamplePages ==
    { <<Anchor(<<Url("http://site.test", "/p1")>>, << <<REL_NEXT>> >>,
               << <<REL_PREV>> >>, <<>>, TEXT_MORE)>> }

(***************************************************************************)
(* Specifications.                                                         *)
(***************************************************************************)
NoRequest == [authority |-> <<>>, blocked |-> FALSE]

HostsFiles ==
    [kind : {"absent", "directory"}, readable : {TRUE}, text : {<<>>}]
    \cup [kind : {"file"}, readable : {FALSE}, text : {<<>>}]
    \cup [kind : {"file"}, readable : {TRUE}, text : SeqsUpTo(FileChars, MaxFileLen)]

\* MainWindow.__init__ and _setup, lines 35-122: one new tab.
WindowConstructed ==
    /\ tabs = <<1>>
    /\ current_index = 0
    /\ views = [v \in {1} |-> EmptyUrl]
    /\ next_view = 2
    /\ location_bar = ""
    /\ pending = <<>>
    /\ last = NoCommand("__init__")

\* The blocklist: any hosts file, the import, then requests.
InitBlock ==
    /\ hosts \in HostsFiles
    /\ import_state = "start"
    /\ authority_blacklist = <<>>
    /\ info = NoRequest
    /\ WindowConstructed

NextBlock ==
    \/ ImportAdblocker
    \/ \E authority \in Authorities : interceptRequest(authority)

SpecBlock == InitBlock /\ [][NextBlock]_vars

\* browser.py never imports adblocker.py: the window runs without it.
Init ==
    /\ hosts = [kind |-> "absent", readable |-> TRUE, text |-> <<>>]
    /\ import_state = "start"
    /\ authority_blacklist = <<>>
    /\ info = NoRequest
    /\ WindowConstructed

\* The window with all its actions, on the sample pages.
Next ==
    \/ new_tab
    \/ \E arg \in {NoIndexArg} \cup (-1..MaxViews) : close_tab(arg)
    \/ \E index \in 0..(MaxViews - 1) : currentChanged(index)
    \/ \E text \in UserInputs : load_url(text)
    \/ back
    \/ forward
    \/ stop
    \/ reload
    \/ previous
    \/ next
    \/ \E i \in 1..MaxPending : go_by(i, SamplePages)
    \/ \E i \in 1..MaxPending, called \in BOOLEAN : go_by_deleted(i, called)

Spec == Init /\ [][Next]_vars

\* The lookup alone: every tab shows http://site.test/p1, previous or next
\* was pressed on one of them, any tab is current, and the callback runs on
\* every page of at most MaxAnchors anchors.
LookupPage == Url("http://site.test", "/p1")

InitGoBy ==
    /\ hosts = [kind |-> "absent", readable |-> TRUE, text |-> <<>>]
    /\ import_state = "start"
    /\ authority_blacklist = <<>>
    /\ info = NoRequest
    /\ tabs = [k \in 1..MaxViews |-> k]
    /\ views = [v \in 1..MaxViews |-> LookupPage]
    /\ next_view = MaxViews + 1
    /\ location_bar = toString(LookupPage)
    /\ current_index \in 0..(MaxViews - 1)
    /\ \E view \in 1..MaxViews, handler \in {"previous", "next"} :
        /\ pending = <<[view |-> view, handler |-> handler, url |-> LookupPage]>>
        /\ last \in {Handler(handler, "toHtml", view, EmptyUrl, EmptyUrl,
                              NoCallback, <<>>),
                      NoCommand("currentChanged")}

NextGoBy == go_by(1, Htmls)

SpecGoBy == InitGoBy /\ [][NextGoBy]_vars

(***************************************************************************)
(* Properties of the blocklist (checked under SpecBlock).                  *)
(***************************************************************************)
IsCommentLine(line) == line # <<>> /\ Head(line) = "#"

IsBlankLine(line) == \A i \in 1..Len(line) : line[i] \in Whitespace

\* The last whitespace-separated token of a line that is not blank: it ends
\* at the last non-blank character and starts where that run of non-blank
\* characters starts.
LastTokenOf(line) ==
    LET e == CHOOSE j \in 1..Len(line) :
                 /\ line[j] \notin Whitespace
                 /\ \A k \in (j + 1)..Len(line) : line[k] \in Whitespace
        b == CHOOSE i \in 1..e :
                 /\ \A k \in i..e : line[k] \notin Whitespace
                 /\ i = 1 \/ line[i - 1] \in Whitespace
    IN  SubSeq(line, b, e)

EntryLines(lines) ==
    {i \in 1..Len(lines) : ~IsCommentLine(lines[i]) /\ ~IsBlankLine(lines[i])}

BlocklistEntries == {authority_blacklist[i] : i \in 1..Len(authority_blacklist)}

\* C1: once a readable hosts file is loaded, the blocklist holds exactly the
\* last whitespace-separated token of every line that neither starts with
\* '#' nor is blank; comment lines and blank lines add nothing, and nothing
\* else is ever added.
C1_BlocklistIsLastTokens ==
    (import_state = "ready" /\ isfile(hosts)) =>
        LET lines == splitlines(hosts.text)
        IN  /\ BlocklistEntries = {LastTokenOf(lines[i]) : i \in EntryLines(lines)}
            /\ Len(authority_blacklist) = Cardinality(EntryLines(lines))

\* A file with a comment line and a line of two different tokens is loaded:
\* only the second token of the data line is in the blocklist.
C1_Witness ==
    /\ import_state = "ready"
    /\ hosts.kind = "file"
    /\ hosts.text = <<"#", "\n", "a", " ", "#">>
    /\ authority_blacklist = << <<"#">> >>

\* C2: a request is marked blocked iff its authority is, character for
\* character, an entry of the blocklist; any other request stays unblocked.
C2_BlockedIffExactEntry ==
    (info # NoRequest) =>
        (info.blocked <=> info.authority \in BlocklistEntries)

\* With "a" loaded, a request for "aa" (which ends with, and starts with,
\* the loaded entry) was intercepted and left unblocked.
C2_Witness ==
    /\ <<"a">> \in BlocklistEntries
    /\ info.authority = <<"a", "a">>
    /\ ~info.blocked

\* C10: when the hosts source is absent, or present but unreadable, the
\* import completes without error, the blocklist is empty and no request is
\* blocked.
C10_MissingOrUnreadableIsEmpty ==
    ((~isfile(hosts) \/ ~hosts.readable) /\ import_state # "start") =>
        /\ import_state = "ready"
        /\ authority_blacklist = <<>>
        /\ ~info.blocked

(***************************************************************************)
(* Properties of the pagination lookup (checked under SpecGoBy).           *)
(***************************************************************************)
\* The anchors the lookup that ran last scanned, its keyword and literals.
ScannedAnchors == find_all_a_href(last.html)

Keyword == relationship_of(last.cb.handler)

Literals == text_matches_of(last.cb.handler)

\* The positions of the anchors that qualify in each pass.
QualifyingAnchors ==
    {i \in 1..Len(ScannedAnchors) : attribute_match(ScannedAnchors[i], Keyword)}

TextMatchingAnchors ==
    {i \in 1..Len(ScannedAnchors) : text_match(ScannedAnchors[i], Literals)}

Min(S) == CHOOSE x \in S : \A y \in S : x <= y

\* C3: in the attribute pass the href selected is that of the first anchor,
\* in document order among the anchors with an href, one of whose class,
\* rel, id carries the relationship keyword; scanning stops there and no
\* later anchor replaces the selection.
C3_AttributePassTakesFirst ==
    (last.op = "go_by" /\ QualifyingAnchors # {}) =>
        attribute_pass(ScannedAnchors, 1, Keyword, <<>>)
            = ScannedAnchors[Min(QualifyingAnchors)].href

\* C4: when no anchor qualifies in the attribute pass, the text pass selects
\* the href of the first anchor, in document order, whose lowercased text
\* contains one of the literals; a later matching anchor never overrides it.
C4_TextPassTakesFirst ==
    (last.op = "go_by" /\ QualifyingAnchors = {} /\ TextMatchingAnchors # {}) =>
        text_pass(ScannedAnchors, 1, Literals,
                  attribute_pass(ScannedAnchors, 1, Keyword, <<>>))
            = ScannedAnchors[Min(TextMatchingAnchors)].href

\* C5: whenever some anchor qualifies in the attribute pass, a link the
\* lookup navigates to is the href of an anchor that qualifies there, the
\* text pass never deciding it, even where the qualifying anchor's href is
\* empty and another anchor matches a text literal.
C5_AttributePassPrecedes ==
    (last.op = "go_by" /\ last.cmd = "load" /\ QualifyingAnchors # {}) =>
        \E i \in QualifyingAnchors :
            last.url = resolve(last.base, ScannedAnchors[i].href[1])

\* No anchor with an href qualifies in either pass of a lookup on html.
NoSignal(html, handler) ==
    \A i \in 1..Len(find_all_a_href(html)) :
        /\ ~attribute_match(find_all_a_href(html)[i], relationship_of(handler))
        /\ ~text_match(find_all_a_href(html)[i], text_matches_of(handler))

\* C6: a lookup on a page without any anchor with an href that qualifies in
\* either pass issues no load command, and leaves every tab's URL, the tab
\* collection and the active index unchanged.
C6_NoMatchIsNoOp ==
    [][(/\ Len(pending') < Len(pending)
        /\ last'.op = "go_by"
        /\ NoSignal(last'.html, last'.cb.handler))
       => (/\ last'.cmd = "none"
           /\ views' = views
           /\ tabs' = tabs
           /\ current_index' = current_index)]_vars

\* The next lookup ran on a page whose only "next" signals are on an anchor
\* without href and inside a longer class token, and issued nothing.
C6_Witness ==
    /\ last.op = "go_by"
    /\ last.cb.handler = "next"
    /\ last.html = <<Anchor(<<>>, << <<REL_NEXT>> >>, <<>>, <<>>, TEXT_MORE),
                     Anchor(<<Url("", "/p2")>>, << <<ID_NEXTPAGE>> >>, <<>>, <<>>,
                            TEXT_MORE)>>
    /\ last.cmd = "none"
    /\ \A v \in DOMAIN views : views[v] = LookupPage

(***************************************************************************)
(* Properties of the window (checked under Spec).                          *)
(***************************************************************************)
\* C7: a link found in the snapshot of a tab is loaded only into that tab
\* and only while it still shows the page the snapshot was taken from.
C7_StaleSnapshotsDiscarded ==
    (last.op = "go_by" /\ last.cmd = "load") =>
        /\ last.view = last.cb.view
        /\ last.base = last.cb.url

\* C8: load_url with an empty location bar issues no load command and
\* leaves the view's URL unchanged.
C8_EmptyLoadIsNoOp ==
    (last.op = "load_url" /\ location_bar = "") =>
        /\ last.cmd = "none"
        /\ last.view # NoView => views[last.view] = last.base

\* C9: while no tab exists, close_tab (with or without an index) removes
\* nothing, schedules no deletion and leaves the tab collection empty, and
\* no navigation action issues an engine command; only new_tab changes the
\* tabs.
C9_NoTabIsNoOp ==
    [][tabs = <<>> =>
           \/ last'.op = "new_tab"
           \/ /\ tabs' = <<>>
              /\ views' = views
              /\ current_index' = current_index
              /\ last' = last \/ last'.cmd = "none"]_vars

\* Every tab was closed and close_tab ran once more.
C9_Witness ==
    /\ tabs = <<>>
    /\ current_index = -1
    /\ last = NoCommand("close_tab")

====
